---- MODULE Spec2Model ----
(***************************************************************************)
(* SharedSlashCommand (packages/builders): the mutable command descriptor, *)
(* its six fluent setters and toJSON().                                     *)
(*                                                                         *)
(* JavaScript values are tagged records, so that `undefined`, `null`,      *)
(* booleans, numbers, bigints and strings stay distinguishable.  Strings   *)
(* are sequences of one-character strings.  Arrays are objects: a field    *)
(* holds a reference into `heap`, and the spread in toJSON copies the      *)
(* reference, not the array.                                               *)
(***************************************************************************)
EXTENDS Integers, Sequences, FiniteSets, TLC

VARIABLES desc, heap, last, ret, done, held, heldSnap

vars == <<desc, heap, last, ret, done, held, heldSnap>>

\* ----------------------------------------------------------------- bounds
MaxOptions == 2
HeapSize == 5

\* ------------------------------------------------------- JavaScript values
Undefined == [t |-> "undefined", n |-> 0, s |-> <<>>]
\* an argument the caller did not pass; the callee reads it as undefined
Absent == [t |-> "absent", n |-> 0, s |-> <<>>]
Null == [t |-> "null", n |-> 0, s |-> <<>>]
Bool(b) == [t |-> "boolean", n |-> IF b THEN 1 ELSE 0, s |-> <<>>]
Num(k) == [t |-> "number", n |-> k, s |-> <<>>]
BigInt(k) == [t |-> "bigint", n |-> k, s |-> <<>>]
Str(cs) == [t |-> "string", n |-> 0, s |-> cs]
Ref(a) == [t |-> "array", n |-> a, s |-> <<>>]

\* what a parameter holds inside the callee
Param(v) == IF v = Absent THEN Undefined ELSE v

DigitChars == <<"0", "1", "2", "3", "4", "5", "6", "7", "8", "9">>

RECURSIVE Digits(_)
Digits(k) ==
    IF k < 10 THEN <<DigitChars[k + 1]>>
    ELSE Append(Digits(k \div 10), DigitChars[(k % 10) + 1])

\* Number.prototype.toString / BigInt.prototype.toString, radix 10
NumberToString(k) == IF k < 0 THEN <<"-">> \o Digits(0 - k) ELSE Digits(k)

IsDigits(cs) ==
    /\ Len(cs) >= 1
    /\ \A i \in 1..Len(cs) : \E d \in 1..10 : DigitChars[d] = cs[i]

Range(f) == {f[i] : i \in DOMAIN f}

NonEmptyString(v) == v.t = "string" /\ Len(v.s) >= 1

\* ----------------------------------------------------------------- enums
Guild == 0
BotDM == 1
PrivateChannel == 2
InteractionContextType == {Guild, BotDM, PrivateChannel}

GuildInstall == 0
UserInstall == 1
ApplicationIntegrationType == {GuildInstall, UserInstall}

ChatInput == 1

\* -------------------------------------------------------- validation rules
Accept(v) == [ok |-> TRUE, value |-> v]
Reject == [ok |-> FALSE, value |-> Undefined]

\* rest arguments: each argument is a plain value or an array literal
Plain(v) == [arr |-> FALSE, v |-> v, items |-> <<>>]
ArrayArg(items) == [arr |-> TRUE, v |-> Undefined, items |-> items]

\* normalizeArray: a leading array argument stands for the whole list;
\* otherwise the arguments themselves are the list (an array literal in a
\* later position stays an element, shown here as an array reference)
normalizeArray(arr) ==
    IF Len(arr) >= 1 /\ arr[1].arr
    THEN arr[1].items
    ELSE [i \in 1..Len(arr) |-> IF arr[i].arr THEN Ref(0) ELSE arr[i].v]

EnumArray(items, members) ==
    IF /\ Len(items) >= 1
       /\ \A i \in 1..Len(items) : items[i].t = "number" /\ items[i].n \in members
    THEN Accept(items)
    ELSE [ok |-> FALSE, value |-> <<>>]

contextsPredicate(items) == EnumArray(items, InteractionContextType)

integrationTypesPredicate(items) == EnumArray(items, ApplicationIntegrationType)

booleanPredicate(v) == IF v.t = "boolean" THEN Accept(v) ELSE Reject

validateDefaultPermission(value) == booleanPredicate(value)

validateNSFW(value) == booleanPredicate(value)

validateDMPermission(value) ==
    IF value.t \in {"boolean", "null", "undefined"} THEN Accept(value) ELSE Reject

validateDefaultMemberPermissions(permissions) ==
    CASE permissions.t \in {"null", "undefined"} -> Accept(permissions)
      [] permissions.t \in {"number", "bigint"} -> Accept(Str(NumberToString(permissions.n)))
      [] permissions.t = "string" ->
            IF IsDigits(permissions.s) THEN Accept(permissions) ELSE Reject
      [] OTHER -> Reject

\* ----------------------------------------------------- localization maps
Locales == {"en-US", "fr"}

NoMap == [set |-> FALSE, entries |-> <<>>]
LocMap(es) == [set |-> TRUE, entries |-> es]

validateLocalizationMap(m) ==
    \/ ~m.set
    \/ \A i \in 1..Len(m.entries) :
          /\ m.entries[i].key \in Locales
          /\ m.entries[i].value.t \in {"string", "null"}
          /\ (m.entries[i].value.t = "string" => Len(m.entries[i].value.s) >= 1)

\* ------------------------------------------------------------ option nodes
Option(k, nm) == [kind |-> k, name |-> nm]

\* ApplicationCommandOptionType: String = 3, Integer = 4
OptionTypeCode(k) == IF k = "string" THEN 3 ELSE 4

\* an option's own toJSON(): validates itself, then returns its wire form
OptionToJSON(o) ==
    IF Len(o.name) >= 1
    THEN [ok |-> TRUE, value |-> [type |-> OptionTypeCode(o.kind), name |-> o.name]]
    ELSE [ok |-> FALSE, value |-> [type |-> 0, name |-> <<>>]]

\* the joint check over (name, description, options); `options` is always a
\* sequence here (the field is initialised to [] and never reassigned), so
\* its part of the check cannot fail
validateRequiredParameters(name, description, options) ==
    IF ~NonEmptyString(name) THEN "name"
    ELSE IF ~NonEmptyString(description) THEN "description"
    ELSE "ok"

\* ------------------------------------------------------------------- heap
Addr == 1..HeapSize

FreeCell == [used |-> FALSE, items |-> <<>>]
Cell(items) == [used |-> TRUE, items |-> items]

\* a fresh array object: the lowest address that holds no live array
Alloc(h) == CHOOSE a \in Addr : ~h[a].used /\ \A b \in 1..(a - 1) : h[b].used

RefsOf(r) ==
    {v.n : v \in {w \in {r.contexts, r.integration_types} : w.t = "array"}}

\* arrays no longer referenced by the descriptor or by a document the
\* caller still holds are reclaimed
Collect(h, roots) == [a \in Addr |-> IF a \in roots THEN h[a] ELSE FreeCell]

\* a field with its array, if any, read through the reference
Deep(v, h) ==
    [t |-> v.t,
     n |-> IF v.t = "array" THEN 0 ELSE v.n,
     s |-> v.s,
     items |-> IF v.t = "array" THEN h[v.n].items ELSE <<>>]

\* a descriptor or a document as the caller observes it
Observed(r, h) ==
    [r EXCEPT !.contexts = Deep(@, h), !.integration_types = Deep(@, h)]

\* ------------------------------------------------------------- descriptor
\* new SharedSlashCommand(): the field initialisers, with the fields that the
\* other mixins of the builder fill in (name, description, localizations,
\* options) taken from `given`
NewDescriptor(given) ==
    [name |-> given.name,
     name_localizations |-> given.name_localizations,
     description |-> given.description,
     description_localizations |-> given.description_localizations,
     options |-> given.options,
     contexts |-> Undefined,
     default_permission |-> Undefined,
     default_member_permissions |-> Undefined,
     dm_permission |-> Undefined,
     integration_types |-> Undefined,
     nsfw |-> Undefined]

NoDoc ==
    [name |-> Undefined,
     name_localizations |-> NoMap,
     description |-> Undefined,
     description_localizations |-> NoMap,
     options |-> <<>>,
     contexts |-> Undefined,
     default_permission |-> Undefined,
     default_member_permissions |-> Undefined,
     dm_permission |-> Undefined,
     integration_types |-> Undefined,
     nsfw |-> Undefined,
     type |-> 0]

\* what a call hands back: the builder itself, a document, or a thrown error
This == [kind |-> "this", err |-> "", doc |-> NoDoc]
Thrown(e) == [kind |-> "error", err |-> e, doc |-> NoDoc]
Returned(d) == [kind |-> "doc", err |-> "", doc |-> d]
Nothing == [kind |-> "none", err |-> "", doc |-> NoDoc]

\* the call just made: operation, argument(s), whether it returned normally,
\* and the options whose toJSON() it invoked, in invocation order; `turn`
\* alternates from call to call, so that a repeated call is a step of its own
Call(op, val, args, ok, calls) ==
    [op |-> op, val |-> val, args |-> args, ok |-> ok, calls |-> calls, turn |-> 0]

Setters ==
    {"setContexts", "setIntegrationTypes", "setDefaultPermission",
     "setDefaultMemberPermissions", "setDMPermission", "setNSFW"}

\* the end of every call: the new descriptor, the heap after the call with
\* unreachable arrays reclaimed, the returned value, and the call record
Finish(d, h, r, c, hd, hs) ==
    /\ desc' = d
    /\ ret' = r
    /\ last' = [c EXCEPT !.turn = 1 - last.turn]
    /\ held' = hd
    /\ heldSnap' = hs
    /\ heap' = Collect(h, RefsOf(d) \cup RefsOf(r.doc) \cup RefsOf(hd.doc))
    /\ done' = IF c.ok /\ c.op \in Setters THEN done \cup {c.op} ELSE done

\* Reflect.set(this, field, value) followed by `return this`
Set(d, h, c) == Finish(d, h, This, c, held, heldSnap)

\* the validation threw: nothing was written
Throw(e, c) == Finish(desc, heap, Thrown(e), c, held, heldSnap)

\* ---------------------------------------------------------------- setters
\* variants of setContexts with a fault seeded
\* - reconciles the deprecated flag away when contexts are set
setContexts_ClearsDM(contexts) ==
    LET parsed == contextsPredicate(normalizeArray(contexts))
        a == Alloc(heap)
    IN  IF parsed.ok
        THEN Set([desc EXCEPT !.contexts = Ref(a), !.dm_permission = Undefined],
                 [heap EXCEPT ![a] = Cell(parsed.value)],
                 Call("setContexts", Undefined, contexts, TRUE, <<>>))
        ELSE Throw("contexts", Call("setContexts", Undefined, contexts, FALSE, <<>>))

\* - refills the array the field already holds instead of replacing it
setContexts_InPlace(contexts) ==
    LET parsed == contextsPredicate(normalizeArray(contexts))
        a == IF desc.contexts.t = "array" THEN desc.contexts.n ELSE Alloc(heap)
    IN  IF parsed.ok
        THEN Set([desc EXCEPT !.contexts = Ref(a)],
                 [heap EXCEPT ![a] = Cell(parsed.value)],
                 Call("setContexts", Undefined, contexts, TRUE, <<>>))
        ELSE Throw("contexts", Call("setContexts", Undefined, contexts, FALSE, <<>>))

setContexts(contexts) ==
    LET parsed == contextsPredicate(normalizeArray(contexts))
        a == Alloc(heap)
    IN  IF parsed.ok
        THEN Set([desc EXCEPT !.contexts = Ref(a)],
                 [heap EXCEPT ![a] = Cell(parsed.value)],
                 Call("setContexts", Undefined, contexts, TRUE, <<>>))
        ELSE Throw("contexts", Call("setContexts", Undefined, contexts, FALSE, <<>>))

setIntegrationTypes(integrationTypes) ==
    LET parsed == integrationTypesPredicate(normalizeArray(integrationTypes))
        a == Alloc(heap)
    IN  IF parsed.ok
        THEN Set([desc EXCEPT !.integration_types = Ref(a)],
                 [heap EXCEPT ![a] = Cell(parsed.value)],
                 Call("setIntegrationTypes", Undefined, integrationTypes, TRUE, <<>>))
        ELSE Throw("integration_types",
                   Call("setIntegrationTypes", Undefined, integrationTypes, FALSE, <<>>))

setDefaultPermission(value) ==
    IF validateDefaultPermission(Param(value)).ok
    THEN Set([desc EXCEPT !.default_permission = Param(value)], heap,
             Call("setDefaultPermission", value, <<>>, TRUE, <<>>))
    ELSE Throw("default_permission",
               Call("setDefaultPermission", value, <<>>, FALSE, <<>>))

\* variants of setDefaultMemberPermissions with a fault seeded
\* - writes the argument before validating it
setDefaultMemberPermissions_WriteFirst(permissions) ==
    LET permissionValue == validateDefaultMemberPermissions(Param(permissions))
    IN  IF permissionValue.ok
        THEN Set([desc EXCEPT !.default_member_permissions = permissionValue.value], heap,
                 Call("setDefaultMemberPermissions", permissions, <<>>, TRUE, <<>>))
        ELSE Finish([desc EXCEPT !.default_member_permissions = Param(permissions)], heap,
                    Thrown("default_member_permissions"),
                    Call("setDefaultMemberPermissions", permissions, <<>>, FALSE, <<>>),
                    held, heldSnap)

\* - stores the argument instead of the parsed value
setDefaultMemberPermissions_Raw(permissions) ==
    LET permissionValue == validateDefaultMemberPermissions(Param(permissions))
    IN  IF permissionValue.ok
        THEN Set([desc EXCEPT !.default_member_permissions = Param(permissions)], heap,
                 Call("setDefaultMemberPermissions", permissions, <<>>, TRUE, <<>>))
        ELSE Throw("default_member_permissions",
                   Call("setDefaultMemberPermissions", permissions, <<>>, FALSE, <<>>))

\* - stores `permissionValue ?? undefined`
setDefaultMemberPermissions_NullToUnset(permissions) ==
    LET permissionValue == validateDefaultMemberPermissions(Param(permissions))
        stored == IF permissionValue.value = Null THEN Undefined ELSE permissionValue.value
    IN  IF permissionValue.ok
        THEN Set([desc EXCEPT !.default_member_permissions = stored], heap,
                 Call("setDefaultMemberPermissions", permissions, <<>>, TRUE, <<>>))
        ELSE Throw("default_member_permissions",
                   Call("setDefaultMemberPermissions", permissions, <<>>, FALSE, <<>>))

setDefaultMemberPermissions(permissions) ==
    LET permissionValue == validateDefaultMemberPermissions(Param(permissions))
    IN  IF permissionValue.ok
        THEN Set([desc EXCEPT !.default_member_permissions = permissionValue.value], heap,
                 Call("setDefaultMemberPermissions", permissions, <<>>, TRUE, <<>>))
        ELSE Throw("default_member_permissions",
                   Call("setDefaultMemberPermissions", permissions, <<>>, FALSE, <<>>))

\* setDMPermission writing the other deprecated field
setDMPermission_WrongField(enabled) ==
    IF validateDMPermission(Param(enabled)).ok
    THEN Set([desc EXCEPT !.default_permission = Param(enabled)], heap,
             Call("setDMPermission", enabled, <<>>, TRUE, <<>>))
    ELSE Throw("dm_permission", Call("setDMPermission", enabled, <<>>, FALSE, <<>>))

setDMPermission(enabled) ==
    IF validateDMPermission(Param(enabled)).ok
    THEN Set([desc EXCEPT !.dm_permission = Param(enabled)], heap,
             Call("setDMPermission", enabled, <<>>, TRUE, <<>>))
    ELSE Throw("dm_permission", Call("setDMPermission", enabled, <<>>, FALSE, <<>>))

\* the parameter without its default
NSFWParam_NoDefault(arg) == Param(arg)

\* the default parameter: an argument that is absent or undefined reads true
NSFWParam(arg) == IF Param(arg) = Undefined THEN Bool(TRUE) ELSE arg

setNSFW(arg) ==
    LET nsfw == NSFWParam(arg)
    IN  IF validateNSFW(nsfw).ok
        THEN Set([desc EXCEPT !.nsfw = nsfw], heap,
                 Call("setNSFW", arg, <<>>, TRUE, <<>>))
        ELSE Throw("nsfw", Call("setNSFW", arg, <<>>, FALSE, <<>>))

\* ----------------------------------------------------------------- toJSON
\* the map building its result back to front
RECURSIVE MapOptions_Reversed(_, _, _, _)
MapOptions_Reversed(options, i, out, calls) ==
    IF i > Len(options)
    THEN [ok |-> TRUE, out |-> out, calls |-> calls]
    ELSE LET r == OptionToJSON(options[i])
         IN  IF r.ok
             THEN MapOptions_Reversed(options, i + 1, <<r.value>> \o out, Append(calls, i))
             ELSE [ok |-> FALSE, out |-> <<>>, calls |-> Append(calls, i)]

\* this.options.map((option) => option.toJSON()): index order, each element
\* once, stopping at the first option that throws
RECURSIVE MapOptions(_, _, _, _)
MapOptions(options, i, out, calls) ==
    IF i > Len(options)
    THEN [ok |-> TRUE, out |-> out, calls |-> calls]
    ELSE LET r == OptionToJSON(options[i])
         IN  IF r.ok
             THEN MapOptions(options, i + 1, Append(out, r.value), Append(calls, i))
             ELSE [ok |-> FALSE, out |-> <<>>, calls |-> Append(calls, i)]

\* { ...this, type: ChatInput, options: mapped }: a shallow copy, so array
\* fields of the document are the descriptor's own array objects
Spread(d, mapped) ==
    [name |-> d.name,
     name_localizations |-> d.name_localizations,
     description |-> d.description,
     description_localizations |-> d.description_localizations,
     options |-> mapped,
     contexts |-> d.contexts,
     default_permission |-> d.default_permission,
     default_member_permissions |-> d.default_member_permissions,
     dm_permission |-> d.dm_permission,
     integration_types |-> d.integration_types,
     nsfw |-> d.nsfw,
     type |-> ChatInput]

\* toJSON() without the required-parameter check
ToJSONResult_NoRequiredCheck(d) ==
    LET mapped == MapOptions(d.options, 1, <<>>, <<>>)
    IN  IF ~validateLocalizationMap(d.name_localizations)
        THEN [ret |-> Thrown("name_localizations"), calls |-> <<>>]
        ELSE IF ~validateLocalizationMap(d.description_localizations)
        THEN [ret |-> Thrown("description_localizations"), calls |-> <<>>]
        ELSE IF ~mapped.ok
        THEN [ret |-> Thrown("options"), calls |-> mapped.calls]
        ELSE [ret |-> Returned(Spread(d, mapped.out)), calls |-> mapped.calls]

\* toJSON() on descriptor d: the value handed back and the option calls made
ToJSONResult(d) ==
    LET required == validateRequiredParameters(d.name, d.description, d.options)
        mapped == MapOptions(d.options, 1, <<>>, <<>>)
    IN  IF required # "ok"
        THEN [ret |-> Thrown(required), calls |-> <<>>]
        ELSE IF ~validateLocalizationMap(d.name_localizations)
        THEN [ret |-> Thrown("name_localizations"), calls |-> <<>>]
        ELSE IF ~validateLocalizationMap(d.description_localizations)
        THEN [ret |-> Thrown("description_localizations"), calls |-> <<>>]
        ELSE IF ~mapped.ok
        THEN [ret |-> Thrown("options"), calls |-> mapped.calls]
        ELSE [ret |-> Returned(Spread(d, mapped.out)), calls |-> mapped.calls]

\* toJSON() writing the default of an unset nsfw back into the builder
toJSON_FillsDefaults(retain) ==
    LET filled == [desc EXCEPT !.nsfw = IF @ = Undefined THEN Bool(FALSE) ELSE @]
        r == ToJSONResult(filled)
        kept == retain /\ r.ret.kind = "doc"
    IN  Finish(IF r.ret.kind = "doc" THEN filled ELSE desc, heap, r.ret,
               Call("toJSON", Undefined, <<>>, r.ret.kind = "doc", r.calls),
               IF kept THEN r.ret ELSE held,
               IF kept THEN Observed(r.ret.doc, heap) ELSE heldSnap)

\* a call of toJSON(); `retain` says whether the caller keeps the returned
\* document around while it goes on using the builder
toJSON(retain) ==
    LET r == ToJSONResult(desc)
        kept == retain /\ r.ret.kind = "doc"
    IN  Finish(desc, heap, r.ret,
               Call("toJSON", Undefined, <<>>, r.ret.kind = "doc", r.calls),
               IF kept THEN r.ret ELSE held,
               IF kept THEN Observed(r.ret.doc, heap) ELSE heldSnap)

\* ----------------------------------------------------------------- inputs
Ping == Str(<<"p", "i", "n", "g">>)
Pong == Str(<<"p", "o", "n", "g">>)
Empty == Str(<<>>)

OptX == Option("string", <<"x">>)
OptY == Option("integer", <<"y">>)
OptBad == Option("string", <<>>)

OptionSeqs(nodes) == UNION {[1..k -> nodes] : k \in 0..MaxOptions}

GoodMap == LocMap(<<[key |-> "fr", value |-> Str(<<"a", "b">>)]>>)
BadKeyMap == LocMap(<<[key |-> "xx", value |-> Str(<<"a", "b">>)]>>)

Given(nm, nl, ds, dl, os) ==
    [name |-> nm, name_localizations |-> nl, description |-> ds,
     description_localizations |-> dl, options |-> os]

\* inputs of Spec: accepted values in each shape the rule knows, and one
\* rejected value per setter
ContextsInputs ==
    {<<Plain(Num(Guild))>>,
     <<ArrayArg(<<Num(Guild), Num(BotDM)>>)>>,
     <<Plain(Num(7))>>}

IntegrationTypesInputs ==
    {<<Plain(Num(UserInstall)), Plain(Num(GuildInstall))>>,
     <<Plain(Num(5))>>}

DefaultPermissionInputs == {Bool(TRUE), Bool(FALSE), Null}

MemberPermissionsInputs == {Null, Num(16), Str(<<"1", "6">>), Str(<<"1", "x">>)}

DMPermissionInputs == {Bool(FALSE), Null, Undefined, Num(1)}

NSFWInputs == {Absent, Bool(TRUE), Bool(FALSE), Null}

\* --------------------------------------------------------- specifications
InitFrom(givens) ==
    /\ desc \in {NewDescriptor(g) : g \in givens}
    /\ heap = [a \in Addr |-> FreeCell]
    /\ last = Call("new", Undefined, <<>>, TRUE, <<>>)
    /\ ret = Nothing
    /\ done = {}
    /\ held = Nothing
    /\ heldSnap = Observed(NoDoc, [a \in Addr |-> FreeCell])

\* Spec: the setters on their input sets, over a complete descriptor
Init == InitFrom({Given(Ping, NoMap, Pong, NoMap, <<OptX>>)})

Next ==
    \/ \E contexts \in ContextsInputs : setContexts(contexts)
    \/ \E integrationTypes \in IntegrationTypesInputs : setIntegrationTypes(integrationTypes)
    \/ \E value \in DefaultPermissionInputs : setDefaultPermission(value)
    \/ \E permissions \in MemberPermissionsInputs : setDefaultMemberPermissions(permissions)
    \/ \E enabled \in DMPermissionInputs : setDMPermission(enabled)
    \/ \E nsfw \in NSFWInputs : setNSFW(nsfw)
    \/ toJSON(FALSE)

Spec == Init /\ [][Next]_vars

\* SpecSerialize: complete and incomplete descriptors, localization maps that
\* pass and fail, option lists with options that serialize and one that
\* throws; each setter on one accepted argument
SerializeGivens ==
    {Given(nm, NoMap, ds, NoMap, os) :
        nm \in {Undefined, Empty, Ping}, ds \in {Undefined, Empty, Pong},
        os \in {<<>>, <<OptX>>}}
    \cup {Given(Ping, nl, Pong, dl, <<OptY>>) :
        nl \in {NoMap, GoodMap, BadKeyMap}, dl \in {NoMap, BadKeyMap}}
    \cup {Given(Ping, NoMap, Pong, NoMap, os) : os \in OptionSeqs({OptX, OptY, OptBad})}

InitSerialize == InitFrom(SerializeGivens)

NextSerialize ==
    \/ setContexts(<<Plain(Num(Guild))>>)
    \/ setIntegrationTypes(<<Plain(Num(GuildInstall))>>)
    \/ setDefaultPermission(Bool(FALSE))
    \/ setDefaultMemberPermissions(Null)
    \/ setDMPermission(Bool(TRUE))
    \/ setNSFW(Absent)
    \/ toJSON(FALSE)

SpecSerialize == InitSerialize /\ [][NextSerialize]_vars

\* SpecSnapshot: the caller may keep a returned document while it goes on
\* calling setters and serialize(); the array setters and setNSFW on accepted
\* and rejected arguments, the other setters on rejected ones
InitSnapshot == InitFrom({Given(Ping, NoMap, Pong, NoMap, <<OptX>>)})

NextSnapshot ==
    \/ \E contexts \in ContextsInputs : setContexts(contexts)
    \/ \E integrationTypes \in IntegrationTypesInputs : setIntegrationTypes(integrationTypes)
    \/ setDefaultPermission(Null)
    \/ setDefaultMemberPermissions(Str(<<"1", "x">>))
    \/ setDMPermission(Num(1))
    \/ \E nsfw \in {Bool(FALSE), Null} : setNSFW(nsfw)
    \/ \E retain \in BOOLEAN : toJSON(retain)

SpecSnapshot == InitSnapshot /\ [][NextSnapshot]_vars

\* ------------------------------------------------------ claim vocabulary
\* the validation rule a setter call ran, applied to the argument it was given
RuleResult(c) ==
    CASE c.op = "setContexts" -> contextsPredicate(normalizeArray(c.args))
      [] c.op = "setIntegrationTypes" -> integrationTypesPredicate(normalizeArray(c.args))
      [] c.op = "setDefaultPermission" -> validateDefaultPermission(Param(c.val))
      [] c.op = "setDefaultMemberPermissions" ->
            validateDefaultMemberPermissions(Param(c.val))
      [] c.op = "setDMPermission" -> validateDMPermission(Param(c.val))
      [] c.op = "setNSFW" ->
            validateNSFW(IF Param(c.val) = Undefined THEN Bool(TRUE) ELSE c.val)

OwnField(op) ==
    CASE op = "setContexts" -> "contexts"
      [] op = "setIntegrationTypes" -> "integration_types"
      [] op = "setDefaultPermission" -> "default_permission"
      [] op = "setDefaultMemberPermissions" -> "default_member_permissions"
      [] op = "setDMPermission" -> "dm_permission"
      [] op = "setNSFW" -> "nsfw"

Fields ==
    {"name", "name_localizations", "description", "description_localizations",
     "options", "contexts", "default_permission", "default_member_permissions",
     "dm_permission", "integration_types", "nsfw"}

\* the descriptor as observed now / after the step
Now == Observed(desc, heap)
After == Observed(desc', heap')

\* what serialize() would hand back now / after the step
OutNow == ToJSONResult(desc).ret
OutAfter == ToJSONResult(desc').ret

\* ------------------------------------------------------------------ C1
\* C1: a setter call whose validation rule rejects its input throws, and
\* leaves every field of the descriptor (its own included) as it was, so
\* that serialize() afterwards gives what it gave before.
C1_RejectedSetterChangesNothing ==
    [][(last'.op \in Setters /\ ~RuleResult(last').ok)
         => LET before == OutNow
                after == OutAfter
            IN  /\ ~last'.ok
                /\ ret'.kind = "error"
                /\ desc' = desc
                /\ After = Now
                /\ after.kind = before.kind
                /\ Observed(after.doc, heap') = Observed(before.doc, heap)]_vars

C1_Witness ==
    /\ last.op = "setDefaultMemberPermissions"
    /\ ~last.ok
    /\ ret.kind = "error"
    /\ desc.default_member_permissions = Str(<<"1", "6">>)
    /\ desc.contexts.t = "array"
    /\ desc.nsfw = Bool(FALSE)

\* ------------------------------------------------------------------ C4
\* C4: a field's value changes only in a successful call of its own setter;
\* a setter call leaves every other field alone, and the documents
\* serialize() gives before and after it differ in at most that field.
C4_SetterFrame ==
    [][IF last'.op \in Setters /\ last'.ok
       THEN LET own == OwnField(last'.op)
                now == Now
                after == After
                outNow == OutNow
                outAfter == OutAfter
                docNow == Observed(outNow.doc, heap)
                docAfter == Observed(outAfter.doc, heap')
            IN  /\ after = [now EXCEPT ![own] = after[own]]
                /\ outAfter.kind = outNow.kind
                /\ docAfter = [docNow EXCEPT ![own] = docAfter[own]]
       ELSE After = Now]_vars

C4_Witness ==
    /\ last.op = "setDMPermission"
    /\ last.ok
    /\ desc.dm_permission = Bool(FALSE)
    /\ desc.default_permission = Bool(TRUE)
    /\ desc.integration_types.t = "array"
    /\ desc.nsfw = Bool(TRUE)

\* ------------------------------------------------------------------ C5
\* C5: after a successful setter call the setter's field holds the value the
\* field's validation rule returned for the argument.
C5_StoredIsRuleValue ==
    (last.op \in Setters /\ last.ok)
        => /\ RuleResult(last).ok
           /\ IF last.op \in {"setContexts", "setIntegrationTypes"}
              THEN /\ desc[OwnField(last.op)].t = "array"
                   /\ Now[OwnField(last.op)].items = RuleResult(last).value
              ELSE desc[OwnField(last.op)] = RuleResult(last).value

C5_Witness ==
    /\ last.op = "setDefaultMemberPermissions"
    /\ last.ok
    /\ last.val = Num(16)
    /\ desc.default_member_permissions = Str(<<"1", "6">>)

\* ------------------------------------------------------------------ C9
\* C9: setNSFW() leaves the descriptor exactly as setNSFW(true) leaves it
\* from the same state (nsfw true, nothing else touched), and nsfw is unset
\* until a setNSFW call has succeeded.
C9_NSFWDefault ==
    /\ [][(last'.op = "setNSFW" /\ last'.val \in {Absent, Bool(TRUE)})
            => /\ last'.ok
               /\ ret'.kind = "this"
               /\ desc' = [desc EXCEPT !.nsfw = Bool(TRUE)]
               /\ After = [Now EXCEPT !.nsfw = Bool(TRUE)]]_vars
    /\ []("setNSFW" \notin done => desc.nsfw = Undefined)

C9_Witness ==
    /\ last.op = "setNSFW"
    /\ last.val = Absent
    /\ last.ok
    /\ desc.nsfw = Bool(TRUE)
    /\ desc.dm_permission = Null

\* ------------------------------------------------------------------ C7
Overlapping ==
    {"setContexts", "setDMPermission", "setDefaultPermission",
     "setDefaultMemberPermissions"}

\* C7: the deprecated fields and the newer ones coexist: each of the four
\* overlapping setters succeeds exactly when its own rule accepts its
\* argument, whatever the other fields hold, none of them touches another's
\* field, and a document hands out default_permission and dm_permission (and
\* contexts and default_member_permissions) exactly as the descriptor holds
\* them, unset when unset.
C7_DeprecatedCoexist ==
    /\ [](last.op \in Overlapping => last.ok = RuleResult(last).ok)
    /\ [][last'.op \in Overlapping
            => \A f \in {OwnField(op) : op \in Overlapping \ {last'.op}} :
                  After[f] = Now[f]]_vars
    /\ []((last.op = "toJSON" /\ last.ok)
            => /\ ret.kind = "doc"
               /\ ret.doc.default_permission = desc.default_permission
               /\ ret.doc.dm_permission = desc.dm_permission
               /\ ret.doc.default_member_permissions = desc.default_member_permissions
               /\ Deep(ret.doc.contexts, heap) = Deep(desc.contexts, heap))

C7_Witness ==
    /\ last.op = "toJSON"
    /\ ret.kind = "doc"
    /\ ret.doc.dm_permission = Bool(FALSE)
    /\ ret.doc.default_permission = Bool(TRUE)
    /\ Deep(ret.doc.contexts, heap).items = <<Num(Guild), Num(BotDM)>>
    /\ ret.doc.default_member_permissions = Null
    /\ ret.doc.nsfw = Undefined

\* ------------------------------------------------------------------ C2
MissingRequired(d) == ~NonEmptyString(d.name) \/ ~NonEmptyString(d.description)

\* C2: whenever name or description is unset or empty, serialize() throws a
\* validation error about that field, hands back no document, calls no
\* option, and leaves the descriptor as it was, whatever the setters did
\* before.
C2_MissingRequiredFails ==
    /\ []((last.op = "toJSON" /\ MissingRequired(desc))
            => /\ ~last.ok
               /\ ret.kind = "error"
               /\ ret.err \in {"name", "description"}
               /\ ret.doc = NoDoc
               /\ last.calls = <<>>)
    /\ [][(last'.op = "toJSON" /\ MissingRequired(desc))
            => desc' = desc /\ After = Now]_vars

C2_Witness ==
    /\ last.op = "toJSON"
    /\ desc.name = Ping
    /\ desc.description = Empty
    /\ ret.kind = "error"
    /\ done = Setters

\* ------------------------------------------------------------------ C3
\* C3: serialize() changes no field of the descriptor; a second serialize()
\* right after a first one fails the same way or returns an equal document;
\* and a setter called after serialize() still succeeds exactly when its rule
\* accepts (no consumed or built state).
C3_SerializeRepeatable ==
    /\ [][last'.op = "toJSON"
            => /\ desc' = desc
               /\ After = Now
               /\ done' = done
               /\ last.op = "toJSON"
                    => /\ ret'.kind = ret.kind
                       /\ ret'.err = ret.err
                       /\ Observed(ret'.doc, heap') = Observed(ret.doc, heap)]_vars
    /\ [][(last.op = "toJSON" /\ last'.op \in Setters)
            => /\ last'.ok = RuleResult(last').ok
               /\ last'.ok => ret'.kind = "this"]_vars

\* a second serialize() in a row on a descriptor no setter has touched
C3_Witness ==
    /\ last.op = "toJSON"
    /\ last.turn = 0
    /\ done = {}
    /\ ret.kind = "doc"
    /\ Len(ret.doc.options) = 2

\* ------------------------------------------------------------------ C8
\* C8: a successful serialize() returns as many options as the descriptor
\* holds, the i-th being the i-th option's own serialization, having called
\* each option once in index order, and leaves the descriptor's options as
\* they were.
C8_OptionOrder ==
    /\ []((last.op = "toJSON" /\ last.ok)
            => /\ Len(ret.doc.options) = Len(desc.options)
               /\ \A i \in 1..Len(desc.options) :
                     /\ OptionToJSON(desc.options[i]).ok
                     /\ ret.doc.options[i] = OptionToJSON(desc.options[i]).value
               /\ last.calls = [i \in 1..Len(desc.options) |-> i])
    /\ [][last'.op = "toJSON" => desc'.options = desc.options]_vars

C8_Witness ==
    /\ last.op = "toJSON"
    /\ last.ok
    /\ desc.options = <<OptY, OptX>>
    /\ ret.doc.options[1].type = 4
    /\ ret.doc.options[2].type = 3

\* ------------------------------------------------------------------ C6
\* the claim as written: valid name and description are enough for the
\* serialize() after setDefaultMemberPermissions(null) to return a document
C6_AsWritten ==
    [][(/\ last.op = "setDefaultMemberPermissions"
        /\ last.val = Null
        /\ last.ok
        /\ ~MissingRequired(desc)
        /\ last'.op = "toJSON")
         => /\ ret'.kind = "doc"
            /\ ret'.doc.default_member_permissions = Null]_vars

Serializable(d) ==
    /\ ~MissingRequired(d)
    /\ validateLocalizationMap(d.name_localizations)
    /\ validateLocalizationMap(d.description_localizations)
    /\ \A i \in 1..Len(d.options) : OptionToJSON(d.options[i]).ok

\* C6: setDefaultMemberPermissions(null) succeeds and stores null itself;
\* a serialize() right after it, on a descriptor whose name, description,
\* localization maps and options all pass, returns a document whose
\* default_member_permissions is null; a document of a descriptor on which
\* the setter never succeeded has it undefined instead.
C6_NullPermissionsKept ==
    /\ []((last.op = "setDefaultMemberPermissions" /\ last.val = Null)
            => last.ok /\ desc.default_member_permissions = Null)
    /\ [][(/\ last.op = "setDefaultMemberPermissions"
            /\ last.val = Null
            /\ Serializable(desc)
            /\ last'.op = "toJSON")
             => /\ ret'.kind = "doc"
                /\ ret'.doc.default_member_permissions = Null]_vars
    /\ []((last.op = "toJSON" /\ last.ok /\ "setDefaultMemberPermissions" \notin done)
            => /\ ret.doc.default_member_permissions = Undefined
               /\ ret.doc.default_member_permissions # Null)

C6_Witness ==
    /\ last.op = "toJSON"
    /\ ret.kind = "doc"
    /\ ret.doc.default_member_permissions = Null
    /\ ret.doc.name_localizations = GoodMap
    /\ done = {"setDefaultMemberPermissions"}

\* ----------------------------------------------------------------- C10
\* C10: a document the caller kept reads, after any later setter calls,
\* accepted or rejected, exactly as it read when it was returned, arrays
\* included; and a document just returned reads as the descriptor does now.
C10_Snapshot ==
    /\ [](held.kind = "doc" => Observed(held.doc, heap) = heldSnap)
    /\ []((last.op = "toJSON" /\ last.ok)
            => LET doc == Observed(ret.doc, heap)
                   now == Now
               IN  \A f \in Fields \ {"options"} : doc[f] = now[f])

\* a kept document whose contexts array the descriptor held too, a later
\* setContexts, and a new document that shows the new contexts
C10_Witness ==
    /\ held.kind = "doc"
    /\ heldSnap.contexts.items = <<Num(Guild)>>
    /\ heldSnap.nsfw = Undefined
    /\ last.op = "toJSON"
    /\ ret.kind = "doc"
    /\ Deep(ret.doc.contexts, heap).items = <<Num(Guild), Num(BotDM)>>
    /\ ret.doc.nsfw = Bool(FALSE)
    /\ "setNSFW" \in done

====
